---- MODULE Spec2Model ----
(***************************************************************************)
(* IVECGuard: the agent's telemetry sync loop with its offline buffer      *)
(* (src/agent.py) and the server's telemetry ingest and command lifecycle  *)
(* store (src/server.py).                                                  *)
(*                                                                         *)
(* One agent process (agent_id) runs sync_loop against the server.  Every  *)
(* HTTP call of the loop has three outcomes: the request never reaches the *)
(* server (requests raises), the server handles it and the response is     *)
(* lost (requests raises after the commit), or the server handles it and   *)
(* the agent reads the response.  An HTTP error status is a response, not  *)
(* an exception: sync_loop never calls raise_for_status.                   *)
(*                                                                         *)
(* Events carry a model-only tag `id` (the n-th log_event call) so that a  *)
(* single event can be followed through queue, buffer file and server.     *)
(* File I/O on the offline buffer succeeds (no OSError); what _load_offline *)
(* does with blank and unparseable lines is modelled.                      *)
(***************************************************************************)
EXTENDS Integers, Sequences, FiniteSets, TLC

VARIABLES
    \* ---- agent (IVECGuardAgent fields and sync_loop locals)
    pc,             \* position of sync_loop: register, top, telemetry, poll, cmds
    command_secret, \* self.command_secret
    event_queue,    \* self.event_queue
    offline_file,   \* the lines of offline_events.jsonl
    policy,         \* self.policy
    offline,        \* sync_loop local `offline`
    merged,         \* sync_loop local `merged` (payload["events"])
    cmds,           \* sync_loop local `cmds`, the part not yet iterated
    \* ---- server (database tables and clock)
    devices,        \* devices table: id -> row
    events,         \* events table, in insertion order
    commands,       \* commands table: id -> row
    now,            \* datetime.utcnow()
    \* ---- history (not program state)
    n_logged,       \* number of log_event calls so far
    mid_cycle_log,  \* some log_event ran while a cycle was in progress
    telemetry_result, \* outcome of the telemetry call of the current cycle,
                    \* until the cycle's poll; then whether the poll failed
    file_before,    \* offline_file when the current cycle started
    attempted,      \* <<command id, ack status>> of every command the agent ran
    rejected,       \* ids of the commands the agent's verifier refused
    acks_sent,      \* <<command id, status>> of every ack request the agent sent
    poll_log,       \* the poll_commands calls: the agent's that returned commands,
                    \* and every call of another client
    odd_ack,        \* some ack set a status other than EXECUTED / FAILED
    signed_for,     \* a command handed to the agent outside a poll: the tuple
                    \* its signature was computed for, and the command
    \* ---- requests of other HTTP clients in progress on the server
    inflight,       \* per handler: the telemetry request it is handling
    reg,            \* the register exchange of a client: request and response
    \* ---- history of direct calls of _truncate_offline
    consumed_log    \* the `consumed` arguments of the calls, in call order

vars == << pc, command_secret, event_queue, offline_file, policy, offline, merged,
           cmds, devices, events, commands, now, n_logged, mid_cycle_log,
           telemetry_result, file_before, attempted, rejected, acks_sent,
           poll_log, odd_ack, signed_for, inflight, reg, consumed_log >>

agentVars  == << pc, command_secret, event_queue, offline_file, policy, offline,
                 merged, cmds >>
serverVars == << devices, events, commands, now >>
histVars   == << n_logged, mid_cycle_log, telemetry_result, file_before,
                 attempted, rejected, acks_sent, poll_log, odd_ack, signed_for, inflight, reg, consumed_log >>

----------------------------------------------------------------------------
(* Bounds of the model *)

MaxEvents == 4      \* log_event calls
MaxRows   == 5      \* rows of the events table
MaxCmds   == 2      \* issue_command calls
MaxTime   == 1      \* clock ticks
MaxPolls  == 2      \* poll_commands calls of arbitrary clients
MaxStoreCmds == 1   \* issue_command calls when arbitrary clients poll and ack
MaxOldLines  == 2   \* lines of a buffer file found at startup
MaxNewEvents == 1   \* log_event calls of an agent started on such a file
MaxIngestRows == 3  \* events in the telemetry requests of arbitrary clients
MaxTruncLines == 3  \* lines of a buffer file that is truncated directly
MaxTruncCalls == 2  \* direct calls of _truncate_offline

(* Program constants.  MaxLines and Ttl are scaled down: max_lines=200 and *)
(* timedelta(minutes=5) in the source.                                     *)
MaxLines  == 3
Ttl       == 1
RiskCap   == 100
CriticalWeight == 60

Min(a, b) == IF a < b THEN a ELSE b

Devs      == {"d1", "d2"}
agent_id  == "d1"                        \* str(uuid.getnode())
COMMAND_SIGNING_SECRET == "k1"           \* the server's secret
Secrets   == {"k1", "k2"}
Weights   == {15, 45}                    \* weights the monitors pass to log_event
ActionsIn == {"LOCK", "WIPE", ""}        \* CommandIn.action: any string

----------------------------------------------------------------------------
(* Offline buffer: agent.py _persist_offline, _load_offline, _truncate_offline *)

NoEvent   == [id |-> 0, weight |-> 0]
Dumps(e)  == [kind |-> "json", evt |-> e]          \* json.dumps(e) + "\n"
BlankLine == [kind |-> "blank", evt |-> NoEvent]   \* "\n"
BadLine   == [kind |-> "bad", evt |-> NoEvent]     \* a line json.loads refuses

\* faulty variant: the file is opened with "w" instead of "a"
_persist_offline_overwrite(file, evts) ==
    [i \in 1..Len(evts) |-> Dumps(evts[i])]

_persist_offline(file, evts) ==
    file \o [i \in 1..Len(evts) |-> Dumps(evts[i])]

RECURSIVE ParseLines(_)
ParseLines(lines) ==
    IF lines = <<>> THEN <<>>
    ELSE IF Head(lines).kind = "blank" THEN ParseLines(Tail(lines))
    ELSE <<Head(lines).evt>> \o ParseLines(Tail(lines))

\* faulty variant: the cap test is `i > max_lines`
_load_offline_off_by_one(file, max_lines) ==
    ParseLines(SubSeq(file, 1, Min(max_lines + 1, Len(file))))

_load_offline(file, max_lines) ==
    LET head == SubSeq(file, 1, Min(max_lines, Len(file)))
    IN  IF \E i \in 1..Len(head) : head[i].kind = "bad"
        THEN <<>>                      \* json.loads raised: except -> return []
        ELSE ParseLines(head)

\* faulty variant: the slice is lines[consumed - 1:]
_truncate_offline_off_by_one(file, consumed) ==
    IF consumed <= 0 THEN file
    ELSE SubSeq(file, consumed, Len(file))

_truncate_offline(file, consumed) ==
    IF consumed <= 0 THEN file
    ELSE SubSeq(file, consumed + 1, Len(file))     \* lines[consumed:]

----------------------------------------------------------------------------
(* Server: register_agent and receive_telemetry as functions of the tables *)

NoPolicy      == "{}"
DefaultPolicy == "default"
NewDevice ==
    [status |-> "ONLINE", risk_score |-> 0, work_stats |-> "default",
     policy |-> DefaultPolicy]

\* faulty variant: an upsert that writes a fresh row over the existing one
register_agent_reset(did) ==
    [devices |-> [d \in DOMAIN devices \cup {did} |->
                     IF d = did THEN NewDevice ELSE devices[d]],
     policy |-> NewDevice.policy]

register_agent(did) ==
    IF did \in DOMAIN devices
    THEN [devices |-> devices, policy |-> devices[did].policy]
    ELSE [devices |-> devices @@ (did :> NewDevice), policy |-> NewDevice.policy]

\* faulty variant: the sum is not clamped
RECURSIVE AddRisk_unclamped(_, _)
AddRisk_unclamped(score, evts) ==
    IF evts = <<>> THEN score
    ELSE AddRisk_unclamped(score + Head(evts).weight, Tail(evts))

RECURSIVE AddRisk(_, _)
AddRisk(score, evts) ==
    IF evts = <<>> THEN score
    ELSE AddRisk(Min(RiskCap, score + Head(evts).weight), Tail(evts))

SecurityEvent(did, e) ==
    [device_id |-> did, evt |-> e,
     severity |-> IF e.weight > CriticalWeight THEN "CRITICAL" ELSE "NORMAL"]

receive_telemetry(payload) ==
    LET did == payload.agent_id
    IN  IF did \notin DOMAIN devices
        THEN [code |-> 404, devices |-> devices, events |-> events,
              policy |-> NoPolicy]
        ELSE [code |-> 200,
              devices |-> [devices EXCEPT ![did] =
                              [@ EXCEPT !.status = "ONLINE",
                                        !.work_stats = payload.work_stats,
                                        !.risk_score = AddRisk(@, payload.events)]],
              events |-> events \o
                         [i \in 1..Len(payload.events) |->
                              SecurityEvent(did, payload.events[i])],
              policy |-> devices[did].policy]

----------------------------------------------------------------------------
(* Command signing (server.py _sign_command) and verification              *)
(* (agent.py _verify_command).  Fields are strings and the signed message  *)
(* is their "|"-joined concatenation, as the f-strings build it.  The HMAC *)
(* is modelled as an injective function of (key, message).                 *)

None == "<None>"                         \* dict.get of a missing key
Falsy(x) == x = "" \/ x = None           \* `not x` for a str or None

Hmac(key, msg) == "hmac[" \o key \o "](" \o msg \o ")"   \* hexdigest

isoformat(t) == "t" \o ToString(t)       \* datetime.isoformat()
uuid4(n) == "c" \o ToString(n)           \* str(uuid.uuid4()) of the n-th call

\* faulty variant: the message is built from str(expires_at), not isoformat()
_sign_command_str(cmd_id, device_id, action, expires_at) ==
    Hmac(COMMAND_SIGNING_SECRET,
         cmd_id \o "|" \o device_id \o "|" \o action \o "|" \o ToString(expires_at))

_sign_command(cmd_id, device_id, action, expires_at) ==
    Hmac(COMMAND_SIGNING_SECRET,
         cmd_id \o "|" \o device_id \o "|" \o action \o "|" \o isoformat(expires_at))

\* faulty variant: compare_digest(expected, expected)
_verify_command_self_compare(self, cmd) ==
    IF Falsy(cmd.id) \/ Falsy(cmd.action) \/ Falsy(cmd.expiresAt) \/ Falsy(cmd.signature)
    THEN FALSE
    ELSE Hmac(self.command_secret,
              cmd.id \o "|" \o self.agent_id \o "|" \o cmd.action \o "|" \o cmd.expiresAt)
         = Hmac(self.command_secret,
                cmd.id \o "|" \o self.agent_id \o "|" \o cmd.action \o "|" \o cmd.expiresAt)

\* self is the agent: [agent_id, command_secret]; cmd the received dict
_verify_command(self, cmd) ==
    IF Falsy(cmd.id) \/ Falsy(cmd.action) \/ Falsy(cmd.expiresAt) \/ Falsy(cmd.signature)
    THEN FALSE
    ELSE Hmac(self.command_secret,
              cmd.id \o "|" \o self.agent_id \o "|" \o cmd.action \o "|" \o cmd.expiresAt)
         = cmd.signature

----------------------------------------------------------------------------
(* Command lifecycle store: server.py issue_command, poll_commands,        *)
(* ack_command as functions of the commands table                          *)

issue_command(deviceId, action) ==
    LET cid == uuid4(Cardinality(DOMAIN commands) + 1)
    IN  commands @@ (cid :> [device_id |-> deviceId, action |-> action,
                             status |-> "PENDING", expires_at |-> now + Ttl])

\* faulty variant: the query has no expires_at filter
PollSelect_no_expiry(aid) ==
    {c \in DOMAIN commands :
        /\ commands[c].device_id = aid
        /\ commands[c].status = "PENDING"}

\* the rows the poll query selects
PollSelect(aid) ==
    {c \in DOMAIN commands :
        /\ commands[c].device_id = aid
        /\ commands[c].status = "PENDING"
        /\ commands[c].expires_at > now}

PollEntry(c) ==
    [id |-> c, action |-> commands[c].action,
     expiresAt |-> isoformat(commands[c].expires_at),
     signature |-> _sign_command(c, commands[c].device_id, commands[c].action,
                                 commands[c].expires_at)]

\* the query has no ORDER BY: the rows come in any order
Orders(S) ==
    {s \in [1..Cardinality(S) -> S] : \A i, j \in DOMAIN s : i # j => s[i] # s[j]}

\* faulty variant: the selected rows are not marked SENT
poll_commands_not_marked(aid, order) ==
    [results  |-> [i \in 1..Len(order) |-> PollEntry(order[i])],
     commands |-> commands]

\* result list for the row order `order`, and the table after the commit
poll_commands(aid, order) ==
    [results  |-> [i \in 1..Len(order) |-> PollEntry(order[i])],
     commands |-> [c \in DOMAIN commands |->
                     IF c \in PollSelect(aid)
                     THEN [commands[c] EXCEPT !.status = "SENT"]
                     ELSE commands[c]]]

\* data is the request body's "status" value, or None when the key is absent
ack_command(cid, data) ==
    IF cid \in DOMAIN commands
    THEN [commands EXCEPT ![cid].status = IF data = None THEN "EXECUTED" ELSE data]
    ELSE commands

----------------------------------------------------------------------------
(* Initial state: IVECGuardAgent.__init__ and empty database tables.  The  *)
(* agent's secret comes from its environment and may differ from the       *)
(* server's.                                                               *)

InitAgent(file) ==
    /\ pc = "register"
    /\ command_secret \in Secrets
    /\ event_queue = <<>>
    /\ offline_file = file
    /\ policy = NoPolicy
    /\ offline = <<>>
    /\ merged = <<>>
    /\ cmds = <<>>

InitServer ==
    /\ devices = <<>>
    /\ events = <<>>
    /\ commands = <<>>
    /\ now = 0

\* request handlers of the server that can be at work at the same time
Handlers == {1, 2}
NoPayload == [agent_id |-> "", events |-> <<>>, work_stats |-> ""]
Idle == [st |-> "idle", payload |-> NoPayload, read |-> 0, code |-> 0]
NoRegister == [st |-> "idle", agent_id |-> "", policy |-> ""]

NoCommand == [id |-> "", action |-> "", expiresAt |-> "", signature |-> ""]
NoTuple ==
    [id |-> "", deviceId |-> "", action |-> "", expires_at |-> 0, cmd |-> NoCommand]

InitHist ==
    /\ n_logged = 0
    /\ mid_cycle_log = FALSE
    /\ telemetry_result = "none"
    /\ file_before = <<>>
    /\ attempted = <<>>
    /\ rejected = {}
    /\ acks_sent = <<>>
    /\ poll_log = <<>>
    /\ odd_ack = FALSE
    /\ signed_for = NoTuple
    /\ inflight = [h \in Handlers |-> Idle]
    /\ reg = NoRegister
    /\ consumed_log = <<>>

Init == InitAgent(<<>>) /\ InitServer /\ InitHist

----------------------------------------------------------------------------
(* Monitor threads: agent.py log_event *)

log_event(weight) ==
    /\ event_queue' = Append(event_queue, [id |-> n_logged + 1, weight |-> weight])
    /\ n_logged' = n_logged + 1
    /\ mid_cycle_log' = (mid_cycle_log \/ pc \notin {"register", "top"})
    /\ UNCHANGED << pc, command_secret, offline_file, policy, offline, merged, cmds >>
    /\ UNCHANGED serverVars
    /\ UNCHANGED << telemetry_result, file_before, attempted,
                    rejected, acks_sent, poll_log, odd_ack, signed_for, inflight, reg, consumed_log >>

LogEvent ==
    /\ n_logged < MaxEvents
    /\ \E w \in Weights : log_event(w)

----------------------------------------------------------------------------
(* sync_loop: registration (agent.py 169-176) *)

RegisterRequestLost ==
    /\ pc = "register"
    /\ pc' = "top"                       \* except: pass
    /\ UNCHANGED << command_secret, event_queue, offline_file, policy, offline,
                    merged, cmds >>
    /\ UNCHANGED serverVars
    /\ UNCHANGED histVars

RegisterResponseLost ==
    /\ pc = "register"
    /\ devices' = register_agent(agent_id).devices
    /\ pc' = "top"
    /\ UNCHANGED << command_secret, event_queue, offline_file, policy, offline,
                    merged, cmds >>
    /\ UNCHANGED << events, commands, now >>
    /\ UNCHANGED histVars

Register ==
    /\ pc = "register"
    /\ devices' = register_agent(agent_id).devices
    /\ policy' = register_agent(agent_id).policy
    /\ pc' = "top"
    /\ UNCHANGED << command_secret, event_queue, offline_file, offline, merged, cmds >>
    /\ UNCHANGED << events, commands, now >>
    /\ UNCHANGED histVars

----------------------------------------------------------------------------
(* sync_loop: one cycle (agent.py 178-218) *)

Payload == [agent_id |-> agent_id, events |-> merged, work_stats |-> "agent"]

\* lines 181-184: read the buffer head, snapshot the queue, build the payload
CycleStart ==
    /\ pc = "top"
    /\ offline' = _load_offline(offline_file, MaxLines)
    /\ merged' = offline' \o event_queue
    /\ pc' = "telemetry"
    /\ file_before' = offline_file
    /\ telemetry_result' = "none"
    /\ UNCHANGED << command_secret, event_queue, offline_file, policy, cmds >>
    /\ UNCHANGED serverVars
    /\ UNCHANGED << n_logged, mid_cycle_log, attempted, rejected, acks_sent,
                    poll_log, odd_ack, signed_for, inflight, reg, consumed_log >>

\* lines 213-218: the except branch of the cycle, then the sleep
ExceptHandler ==
    /\ offline_file' = IF event_queue # <<>>
                       THEN _persist_offline(offline_file, event_queue)
                       ELSE offline_file
    /\ event_queue' = <<>>
    /\ pc' = "top"
    /\ offline' = <<>>
    /\ merged' = <<>>
    /\ cmds' = <<>>
    /\ UNCHANGED << command_secret, policy >>

\* line 185 raises before the server saw the request
TelemetryRequestLost ==
    /\ pc = "telemetry"
    /\ ExceptHandler
    /\ telemetry_result' = "request_lost"
    /\ UNCHANGED serverVars
    /\ UNCHANGED << n_logged, mid_cycle_log, file_before, attempted, rejected,
                    acks_sent, poll_log, odd_ack, signed_for, inflight, reg, consumed_log >>

\* line 185 raises (timeout, reset) after the server handled the request
TelemetryResponseLost ==
    /\ pc = "telemetry"
    /\ Len(receive_telemetry(Payload).events) <= MaxRows
    /\ devices' = receive_telemetry(Payload).devices
    /\ events' = receive_telemetry(Payload).events
    /\ ExceptHandler
    /\ telemetry_result' = "response_lost"
    /\ UNCHANGED << commands, now >>
    /\ UNCHANGED << n_logged, mid_cycle_log, file_before, attempted, rejected,
                    acks_sent, poll_log, odd_ack, signed_for, inflight, reg, consumed_log >>

\* lines 185-190: the agent reads a response, whatever its status code
Telemetry ==
    /\ pc = "telemetry"
    /\ Len(receive_telemetry(Payload).events) <= MaxRows
    /\ devices' = receive_telemetry(Payload).devices
    /\ events' = receive_telemetry(Payload).events
    /\ event_queue' = <<>>
    /\ offline_file' = IF offline # <<>>
                       THEN _truncate_offline(offline_file, Len(offline))
                       ELSE offline_file
    /\ policy' = receive_telemetry(Payload).policy
    /\ pc' = "poll"
    /\ telemetry_result' = IF receive_telemetry(Payload).code = 200
                           THEN "ok" ELSE "rejected"
    /\ UNCHANGED << command_secret, offline, merged, cmds >>
    /\ UNCHANGED << commands, now >>
    /\ UNCHANGED << n_logged, mid_cycle_log, file_before, attempted, rejected,
                    acks_sent, poll_log, odd_ack, signed_for, inflight, reg, consumed_log >>

----------------------------------------------------------------------------
(* sync_loop: command poll and execution (agent.py 192-211) *)

Self == [agent_id |-> agent_id, command_secret |-> command_secret]

\* history: the telemetry call's record is kept until the cycle's poll
ForgetTelemetry ==
    /\ telemetry_result' = "none"
    /\ file_before' = <<>>

\* history: the poll call of the cycle raised
PollFailed ==
    /\ telemetry_result' = "poll_lost"
    /\ file_before' = <<>>

PollRecord(aid, results) == [agent_id |-> aid, at |-> now, result |-> results]

\* history: the agent's polls that returned at least one command
LogPoll(aid, results) ==
    IF results = <<>> THEN poll_log
    ELSE Append(poll_log, PollRecord(aid, results))

\* line 193 raises before the server saw the request
PollRequestLost ==
    /\ pc = "poll"
    /\ ExceptHandler
    /\ PollFailed
    /\ UNCHANGED serverVars
    /\ UNCHANGED << n_logged, mid_cycle_log, attempted, rejected, acks_sent,
                    poll_log, odd_ack, signed_for, inflight, reg, consumed_log >>

\* line 193 raises after the server handled the request
PollResponseLost ==
    /\ pc = "poll"
    /\ \E order \in Orders(PollSelect(agent_id)) :
          /\ commands' = poll_commands(agent_id, order).commands
          /\ poll_log' = LogPoll(agent_id, poll_commands(agent_id, order).results)
    /\ ExceptHandler
    /\ UNCHANGED << devices, events, now >>
    /\ PollFailed
    /\ UNCHANGED << n_logged, mid_cycle_log, attempted, rejected, acks_sent, odd_ack, signed_for, inflight, reg, consumed_log >>

\* line 193: the agent reads the poll result
Poll ==
    /\ pc = "poll"
    /\ \E order \in Orders(PollSelect(agent_id)) :
          /\ commands' = poll_commands(agent_id, order).commands
          /\ cmds' = poll_commands(agent_id, order).results
          /\ poll_log' = LogPoll(agent_id, poll_commands(agent_id, order).results)
    /\ pc' = IF cmds' = <<>> THEN "top" ELSE "cmds"
    /\ UNCHANGED << command_secret, event_queue, offline_file, policy, offline, merged >>
    /\ UNCHANGED << devices, events, now >>
    /\ ForgetTelemetry
    /\ UNCHANGED << n_logged, mid_cycle_log, attempted, rejected, acks_sent, odd_ack, signed_for, inflight, reg, consumed_log >>

\* faulty variant: `break` instead of `continue`
RejectCommand_break ==
    /\ pc = "cmds"
    /\ ~_verify_command(Self, Head(cmds))
    /\ cmds' = <<>>
    /\ pc' = "top"
    /\ rejected' = rejected \cup {Head(cmds).id}
    /\ UNCHANGED << command_secret, event_queue, offline_file, policy, offline, merged >>
    /\ UNCHANGED serverVars
    /\ UNCHANGED << n_logged, mid_cycle_log, telemetry_result, file_before, attempted,
                    acks_sent, poll_log, odd_ack, signed_for, inflight, reg, consumed_log >>

\* lines 195-197: the verifier refuses the next command of the batch
RejectCommand ==
    /\ pc = "cmds"
    /\ ~_verify_command(Self, Head(cmds))
    /\ cmds' = Tail(cmds)
    /\ pc' = IF cmds' = <<>> THEN "top" ELSE "cmds"
    /\ rejected' = rejected \cup {Head(cmds).id}
    /\ UNCHANGED << command_secret, event_queue, offline_file, policy, offline, merged >>
    /\ UNCHANGED serverVars
    /\ UNCHANGED << n_logged, mid_cycle_log, telemetry_result, file_before, attempted, acks_sent, poll_log, odd_ack, signed_for, inflight, reg, consumed_log >>

\* lines 199-206: the status the agent reports; `raised` is subprocess.run failing
AckStatus(c, raised) ==
    IF c.action = "LOCK" /\ ~raised THEN "EXECUTED" ELSE "FAILED"

\* what lines 198-211 do up to sending the ack
RunCommand(c, raised) ==
    /\ pc = "cmds"
    /\ c = Head(cmds)
    /\ _verify_command(Self, c)
    /\ raised => c.action = "LOCK"
    /\ attempted' = Append(attempted, <<c.id, AckStatus(c, raised)>>)
    /\ acks_sent' = Append(acks_sent, <<c.id, AckStatus(c, raised)>>)
    /\ UNCHANGED << odd_ack, signed_for, inflight, reg, consumed_log >>
    /\ UNCHANGED << n_logged, mid_cycle_log, telemetry_result, file_before, rejected, poll_log >>
    /\ UNCHANGED << devices, events, now >>

\* the ack request reaches the server and the agent reads the response
ExecuteCommand ==
    \E raised \in BOOLEAN :
        /\ RunCommand(Head(cmds), raised)
        /\ commands' = ack_command(Head(cmds).id, AckStatus(Head(cmds), raised))
        /\ cmds' = Tail(cmds)
        /\ pc' = IF cmds' = <<>> THEN "top" ELSE "cmds"
        /\ UNCHANGED << command_secret, event_queue, offline_file, policy, offline,
                        merged >>

\* the ack request raises before the server saw it
ExecuteAckRequestLost ==
    \E raised \in BOOLEAN :
        /\ RunCommand(Head(cmds), raised)
        /\ commands' = commands
        /\ ExceptHandler

\* the ack request raises after the server handled it
ExecuteAckResponseLost ==
    \E raised \in BOOLEAN :
        /\ RunCommand(Head(cmds), raised)
        /\ commands' = ack_command(Head(cmds).id, AckStatus(Head(cmds), raised))
        /\ ExceptHandler

----------------------------------------------------------------------------
(* Operator and clock *)

IssueCommandIn(actions, max) ==
    /\ Cardinality(DOMAIN commands) < max
    /\ \E d \in Devs, a \in actions : commands' = issue_command(d, a)
    /\ UNCHANGED agentVars
    /\ UNCHANGED << devices, events, now >>
    /\ UNCHANGED histVars

IssueCommand == IssueCommandIn(ActionsIn, MaxCmds)

Tick ==
    /\ now < MaxTime
    /\ now' = now + 1
    /\ UNCHANGED agentVars
    /\ UNCHANGED << devices, events, commands >>
    /\ UNCHANGED histVars

----------------------------------------------------------------------------

(* Spec: the telemetry path.  The monitors log events and the sync loop    *)
(* cycles; the operator issues no command, so every poll result is empty.  *)
Next ==
    \/ LogEvent
    \/ RegisterRequestLost
    \/ RegisterResponseLost
    \/ Register
    \/ CycleStart
    \/ TelemetryRequestLost
    \/ TelemetryResponseLost
    \/ Telemetry
    \/ PollRequestLost
    \/ PollResponseLost
    \/ Poll

Spec == Init /\ [][Next]_vars

(* SpecChannel: the command channel.  The operator issues commands, the    *)
(* clock advances and the sync loop cycles; the monitors log nothing, so   *)
(* every telemetry payload is empty.                                       *)
NextChannel ==
    \/ RegisterRequestLost
    \/ RegisterResponseLost
    \/ Register
    \/ CycleStart
    \/ TelemetryRequestLost
    \/ TelemetryResponseLost
    \/ Telemetry
    \/ PollRequestLost
    \/ PollResponseLost
    \/ Poll
    \/ RejectCommand
    \/ ExecuteCommand
    \/ ExecuteAckRequestLost
    \/ ExecuteAckResponseLost
    \/ IssueCommand
    \/ Tick

SpecChannel == Init /\ [][NextChannel]_vars

(* SpecFile: the telemetry path of an agent that starts with a buffer     *)
(* file left on disk, whose lines may be serialized events of an earlier   *)
(* run, blank, or unparseable.                                             *)
OldEvent == [id |-> 0, weight |-> 15]
OldLines == {Dumps(OldEvent), BlankLine, BadLine}
OldFiles == UNION {[1..n -> OldLines] : n \in 0..MaxOldLines}

InitFile ==
    /\ \E f \in OldFiles : InitAgent(f)
    /\ InitServer
    /\ InitHist

LogEventFile ==
    /\ n_logged < MaxNewEvents
    /\ \E w \in Weights : log_event(w)

NextFile ==
    \/ LogEventFile
    \/ RegisterRequestLost
    \/ RegisterResponseLost
    \/ Register
    \/ CycleStart
    \/ TelemetryRequestLost
    \/ TelemetryResponseLost
    \/ Telemetry
    \/ PollRequestLost
    \/ PollResponseLost
    \/ Poll

SpecFile == InitFile /\ [][NextFile]_vars

----------------------------------------------------------------------------
(* SpecStore: the command lifecycle store under arbitrary HTTP clients.    *)
(* Any client may poll for any device and ack any command id with any      *)
(* body; the agent process is not started.                                 *)

AckBodies == {"EXECUTED", "FAILED", "PENDING", "DONE", None}
AckIds    == {uuid4(n) : n \in 1..(MaxStoreCmds + 1)}

InitStore ==
    /\ InitAgent(<<>>)
    /\ command_secret = COMMAND_SIGNING_SECRET
    /\ InitServer
    /\ InitHist

ClientIssue == IssueCommandIn({"LOCK", ""}, MaxStoreCmds)

ClientPoll ==
    /\ Len(poll_log) < MaxPolls
    /\ \E aid \in Devs : \E order \in Orders(PollSelect(aid)) :
          /\ commands' = poll_commands(aid, order).commands
          /\ poll_log' = Append(poll_log,
                                PollRecord(aid, poll_commands(aid, order).results))
    /\ UNCHANGED agentVars
    /\ UNCHANGED << devices, events, now >>
    /\ UNCHANGED << n_logged, mid_cycle_log, telemetry_result, file_before,
                    attempted, rejected, acks_sent, odd_ack, signed_for, inflight, reg, consumed_log >>

ClientAck ==
    /\ \E cid \in AckIds, data \in AckBodies :
          /\ commands' = ack_command(cid, data)
          /\ odd_ack' = (odd_ack \/ data \notin {"EXECUTED", "FAILED", None})
    /\ UNCHANGED agentVars
    /\ UNCHANGED << devices, events, now >>
    /\ UNCHANGED << n_logged, mid_cycle_log, telemetry_result, file_before,
                    attempted, rejected, acks_sent, poll_log, signed_for, inflight, reg, consumed_log >>

NextStore ==
    \/ ClientIssue
    \/ Tick
    \/ ClientPoll
    \/ ClientAck

SpecStore == InitStore /\ [][NextStore]_vars

----------------------------------------------------------------------------
(* SpecSig: the verifier on its own.  The agent is handed one command      *)
(* whose signature the server computed for a tuple (id, deviceId, action,  *)
(* expires_at) and whose other fields are arbitrary, and runs the body of  *)
(* the command loop on it.  Ids, device ids and actions are strings and    *)
(* may contain the separator "|".                                          *)

SigIds     == {"c1", "c2"}
SigDevs    == {"d1", "d2", "d1|x"}
SigActions == {"LOCK", "WIPE", "x|LOCK"}
SigTimes   == {1, 2}

SignedCommand(t, id, action, expiresAt) ==
    [id |-> id, action |-> action, expiresAt |-> expiresAt,
     signature |-> _sign_command(t.id, t.deviceId, t.action, t.expires_at)]

InitSig ==
    /\ \E id \in SigIds, dev \in SigDevs, act \in SigActions, exp \in SigTimes :
       \E pid \in SigIds, pact \in SigActions \cup {""}, pexp \in SigTimes :
          LET t == [id |-> id, deviceId |-> dev, action |-> act, expires_at |-> exp]
              c == SignedCommand(t, pid, pact, isoformat(pexp))
          IN  /\ signed_for = [id |-> id, deviceId |-> dev, action |-> act,
                                expires_at |-> exp, cmd |-> c]
              /\ cmds = <<c>>
    /\ pc = "cmds"
    /\ command_secret = COMMAND_SIGNING_SECRET
    /\ event_queue = <<>>
    /\ offline_file = <<>>
    /\ policy = NoPolicy
    /\ offline = <<>>
    /\ merged = <<>>
    /\ InitServer
    /\ n_logged = 0
    /\ mid_cycle_log = FALSE
    /\ telemetry_result = "none"
    /\ file_before = <<>>
    /\ attempted = <<>>
    /\ rejected = {}
    /\ acks_sent = <<>>
    /\ poll_log = <<>>
    /\ odd_ack = FALSE
    /\ inflight = [h \in Handlers |-> Idle]
    /\ reg = NoRegister
    /\ consumed_log = <<>>

NextSig ==
    \/ RejectCommand
    \/ ExecuteCommand
    \/ ExecuteAckRequestLost
    \/ ExecuteAckResponseLost

SpecSig == InitSig /\ [][NextSig]_vars

----------------------------------------------------------------------------
(* SpecIngest: register_agent, receive_telemetry and update_policy under   *)
(* arbitrary HTTP clients.  Two telemetry requests can be in progress at   *)
(* the same time (one per server worker, each with its own database        *)
(* session): a handler reads the device row (line 158), works on its own   *)
(* copy, and its commit (line 169) inserts the events and writes back the  *)
(* attributes it changed.  The agent process is not started.               *)

WeightsIn == {-5, 50, 100}               \* EventIn.weight: any int
Batches   == UNION {[1..n -> WeightsIn] : n \in 0..MaxIngestRows}
Policies  == {"custom"}                  \* update_policy body: any dict

ClientEvent(w) == [id |-> 0, weight |-> w]

ClientPayload(aid, batch) ==
    [agent_id |-> aid,
     events |-> [i \in 1..Len(batch) |-> ClientEvent(batch[i])],
     work_stats |-> "client"]

\* events of the requests whose handler has read the device and not committed
RECURSIVE OpenRows(_)
OpenRows(H) ==
    IF H = {} THEN 0
    ELSE LET h == CHOOSE x \in H : TRUE
         IN  (IF inflight[h].st = "open" THEN Len(inflight[h].payload.events) ELSE 0)
             + OpenRows(H \ {h})

\* a handler that has answered: the response it sent and the device asked for
Response(aid, code) ==
    [st |-> "done", payload |-> [NoPayload EXCEPT !.agent_id = aid], read |-> 0,
     code |-> code]

\* faulty variant: the handler does not test `if not dev`
receive_telemetry_query_unchecked(payload) ==
    [st |-> "open", payload |-> payload, code |-> 0,
     read |-> IF payload.agent_id \in DOMAIN devices
              THEN devices[payload.agent_id].risk_score ELSE 0]

\* lines 158-159: the device query; HTTPException(404) when there is no row
receive_telemetry_query(payload) ==
    IF payload.agent_id \notin DOMAIN devices
    THEN Response(payload.agent_id, 404)
    ELSE [st |-> "open", payload |-> payload,
          read |-> devices[payload.agent_id].risk_score, code |-> 0]

\* lines 160-169: the handler's work on the row it read, and its commit.  The
\* UPDATE carries the attributes whose value differs from the value read.
receive_telemetry_commit(req) ==
    LET did == req.payload.agent_id
        new == AddRisk(req.read, req.payload.events)
    IN  [devices |-> [devices EXCEPT ![did] =
                         [@ EXCEPT !.status = "ONLINE",
                                   !.work_stats = req.payload.work_stats,
                                   !.risk_score = IF new = req.read THEN @ ELSE new]],
         events |-> events \o
                    [i \in 1..Len(req.payload.events) |->
                         SecurityEvent(did, req.payload.events[i])]]

\* server.py 222-228
update_policy(id, pol) ==
    IF id \in DOMAIN devices
    THEN [devices EXCEPT ![id].policy = pol]
    ELSE devices

InitIngest ==
    /\ InitAgent(<<>>)
    /\ command_secret = COMMAND_SIGNING_SECRET
    /\ InitServer
    /\ InitHist

ClientRegister ==
    /\ reg.st = "idle"
    /\ \E aid \in Devs :
          /\ devices' = register_agent(aid).devices
          /\ reg' = [st |-> "done", agent_id |-> aid,
                     policy |-> register_agent(aid).policy]
    /\ UNCHANGED agentVars
    /\ UNCHANGED << events, commands, now >>
    /\ UNCHANGED << n_logged, mid_cycle_log, telemetry_result, file_before,
                    attempted, rejected, acks_sent, poll_log, odd_ack, signed_for,
                    inflight, consumed_log >>

\* a register request whose response is not looked at
RegisterDevice ==
    /\ \E aid \in Devs : devices' = register_agent(aid).devices
    /\ UNCHANGED agentVars
    /\ UNCHANGED << events, commands, now >>
    /\ UNCHANGED histVars

\* the client reads the register response
ClientRegisterDone ==
    /\ reg.st = "done"
    /\ reg' = NoRegister
    /\ UNCHANGED agentVars
    /\ UNCHANGED serverVars
    /\ UNCHANGED << n_logged, mid_cycle_log, telemetry_result, file_before,
                    attempted, rejected, acks_sent, poll_log, odd_ack, signed_for,
                    inflight, consumed_log >>

UpdatePolicy ==
    /\ \E id \in Devs, pol \in Policies : devices' = update_policy(id, pol)
    /\ UNCHANGED agentVars
    /\ UNCHANGED << events, commands, now >>
    /\ UNCHANGED histVars

\* a request goes to the first handler that is free
TelemetryQueryIn(h, batches) ==
    /\ inflight[h].st = "idle"
    /\ \A g \in Handlers : g < h => inflight[g].st # "idle"
    /\ \E aid \in Devs, batch \in batches :
          /\ Len(events) + OpenRows(Handlers) + Len(batch) <= MaxIngestRows
          /\ inflight' = [inflight EXCEPT ![h] =
                             receive_telemetry_query(ClientPayload(aid, batch))]
    /\ UNCHANGED agentVars
    /\ UNCHANGED serverVars
    /\ UNCHANGED << n_logged, mid_cycle_log, telemetry_result, file_before,
                    attempted, rejected, acks_sent, poll_log, odd_ack, signed_for,
                    reg, consumed_log >>

TelemetryQuery(h) == TelemetryQueryIn(h, Batches)

TelemetryCommit(h) ==
    /\ inflight[h].st = "open"
    /\ devices' = receive_telemetry_commit(inflight[h]).devices
    /\ events' = receive_telemetry_commit(inflight[h]).events
    /\ inflight' = [inflight EXCEPT ![h] = Response(inflight[h].payload.agent_id, 200)]
    /\ UNCHANGED agentVars
    /\ UNCHANGED << commands, now >>
    /\ UNCHANGED << n_logged, mid_cycle_log, telemetry_result, file_before,
                    attempted, rejected, acks_sent, poll_log, odd_ack, signed_for,
                    reg, consumed_log >>

\* the client reads the telemetry response
TelemetryDone(h) ==
    /\ inflight[h].st = "done"
    /\ inflight' = [inflight EXCEPT ![h] = Idle]
    /\ UNCHANGED agentVars
    /\ UNCHANGED serverVars
    /\ UNCHANGED << n_logged, mid_cycle_log, telemetry_result, file_before,
                    attempted, rejected, acks_sent, poll_log, odd_ack, signed_for,
                    reg, consumed_log >>

NextIngest ==
    \/ RegisterDevice
    \/ \E h \in Handlers : TelemetryQuery(h)
    \/ \E h \in Handlers : TelemetryCommit(h)
    \/ \E h \in Handlers : TelemetryDone(h)

SpecIngest == InitIngest /\ [][NextIngest]_vars

(* SpecRegister: registration and policy updates of arbitrary clients,    *)
(* with telemetry requests handled one at a time.                          *)
NextRegister ==
    \/ ClientRegister
    \/ ClientRegisterDone
    \/ UpdatePolicy
    \/ TelemetryQueryIn(1, {<<50>>, <<-5>>})
    \/ TelemetryCommit(1)
    \/ TelemetryDone(1)

SpecRegister == InitIngest /\ [][NextRegister]_vars

----------------------------------------------------------------------------
(* Properties of the telemetry path *)

\* where the event tagged i is
InQueue(i)   == \E k \in DOMAIN event_queue : event_queue[k].id = i
InFile(i)    == \E k \in DOMAIN offline_file :
                    offline_file[k].kind = "json" /\ offline_file[k].evt.id = i
RowsOf(i)    == {k \in DOMAIN events : events[k].evt.id = i}
Persisted(i) == RowsOf(i) # {}

\* the lines json.dumps writes for a list of events
DumpedLines(q) == [i \in 1..Len(q) |-> [kind |-> "json", evt |-> q[i]]]

RECURSIVE SumWeights(_)
SumWeights(S) ==
    IF S = {} THEN 0
    ELSE LET i == CHOOSE x \in S : TRUE
         IN  events[CHOOSE k \in RowsOf(i) : TRUE].evt.weight + SumWeights(S \ {i})

\* C1: no event is lost.  While every log_event call fell between cycles,
\* each event ever enqueued is in the in-memory queue, in the offline buffer
\* file, or persisted by the server, whatever the outcome of the network calls.
C1_NoEventLost ==
    ~mid_cycle_log =>
        \A i \in 1..n_logged : InQueue(i) \/ InFile(i) \/ Persisted(i)

\* C2: no event is duplicated.  Each event enqueued once is persisted by the
\* server at most once and adds its weight to the device risk score at most
\* once, wherever in a cycle a failure occurs.
C2_NoEventDuplicated ==
    /\ \A i \in 1..n_logged : Cardinality(RowsOf(i)) <= 1
    /\ agent_id \in DOMAIN devices =>
          devices[agent_id].risk_score
              = Min(RiskCap, SumWeights({i \in 1..n_logged : Persisted(i)}))

\* C3: the events of the telemetry payload built at the start of a cycle are
\* the events of the first min(MaxLines, m) lines of the buffer file, in file
\* order, followed by the whole in-memory queue in enqueue order.
C3_PayloadOrder ==
    [][ (pc = "top" /\ pc' = "telemetry") =>
          LET k == Min(MaxLines, Len(offline_file))
          IN  /\ Len(merged') = k + Len(event_queue)
              /\ \A i \in 1..k : merged'[i] = offline_file[i].evt
              /\ \A j \in 1..Len(event_queue) : merged'[k + j] = event_queue[j]
      ]_vars

\* C3 witness: three failed cycles buffered events 1, 2, 3, event 4 was logged
\* afterwards, and the payload of the next cycle carries 1, 2, 3, 4.
C3_Witness ==
    /\ pc = "telemetry"
    /\ ~mid_cycle_log
    /\ Len(offline_file) = 3
    /\ Len(event_queue) = 1
    /\ Len(merged) = 4
    /\ \A i \in 1..4 : merged[i].id = i

\* C4: after a cycle whose telemetry upload the server accepted, the buffer
\* file is its content at the start of the cycle without the lines read for
\* the upload (the first min(MaxLines, m) lines, blank or not), and the queue
\* is empty.
C4_TruncatesReadPrefix ==
    telemetry_result = "ok" =>
        /\ offline_file = SubSeq(file_before,
                                 Min(MaxLines, Len(file_before)) + 1,
                                 Len(file_before))
        /\ ~mid_cycle_log => event_queue = <<>>

\* C5: when the telemetry call of a cycle raises, the buffer file becomes its
\* content at the start of the cycle followed by the queued events in enqueue
\* order, and the queue is emptied.
C5_FailureSpill ==
    [][ (pc = "telemetry" /\ pc' = "top") =>
          /\ offline_file' = file_before \o DumpedLines(event_queue)
          /\ event_queue' = <<>>
      ]_vars

\* C5 witness: a telemetry call failed in a cycle that started with a
\* non-empty buffer and a non-empty queue.
C5_Witness ==
    /\ pc = "top"
    /\ telemetry_result \in {"request_lost", "response_lost"}
    /\ file_before # <<>>
    /\ Len(offline_file) > Len(file_before)
    /\ event_queue = <<>>

----------------------------------------------------------------------------
(* Properties of the command channel *)

ResultIds(rec) == {rec.result[j].id : j \in DOMAIN rec.result}
AttemptedIds   == {attempted[k][1] : k \in DOMAIN attempted}
AckedIds       == {acks_sent[k][1] : k \in DOMAIN acks_sent}

\* the agent of device aid holding the server's secret
AgentOf(aid) == [agent_id |-> aid, command_secret |-> COMMAND_SIGNING_SECRET]

\* the digest an agent recomputes from the fields it received
Recomputed(self, c) ==
    Hmac(self.command_secret,
         c.id \o "|" \o self.agent_id \o "|" \o c.action \o "|" \o c.expiresAt)

\* C6 as claimed: every command a poll for X returns, whatever its action
\* string, is accepted by the verifier of the agent whose agent_id is X and
\* whose secret is the server's.
C6_PolledAccepted ==
    \A k \in DOMAIN poll_log : \A j \in DOMAIN poll_log[k].result :
        _verify_command(AgentOf(poll_log[k].agent_id), poll_log[k].result[j])

\* C6 amended: the signature of every command a poll for X returns equals the
\* digest agent X recomputes from the received fields, and the verifier
\* accepts the command exactly when its action string is not empty.
C6_PolledAcceptedUnlessEmpty ==
    \A k \in DOMAIN poll_log : \A j \in DOMAIN poll_log[k].result :
        LET self == AgentOf(poll_log[k].agent_id)
            c    == poll_log[k].result[j]
        IN  /\ c.signature = Recomputed(self, c)
            /\ _verify_command(self, c) <=> c.action # ""

\* C6 witness: a poll returned a command with a non-empty action.
C6_Witness ==
    \E k \in DOMAIN poll_log : \E j \in DOMAIN poll_log[k].result :
        poll_log[k].result[j].action = "LOCK"

Refusable(c) ==
    \/ Falsy(c.id) \/ Falsy(c.action) \/ Falsy(c.expiresAt) \/ Falsy(c.signature)
    \/ c.signature # Recomputed(Self, c)

\* C8: when the next command of a poll result fails verification, the agent's
\* step on it runs no action and sends no ack, leaves the commands table
\* unchanged, and moves on to the rest of the batch; a refused command is
\* never executed or acked by the agent and its status stays SENT.
C8_RejectedSkipped ==
    /\ [](\A id \in rejected :
            /\ id \notin AttemptedIds
            /\ id \notin AckedIds
            /\ commands[id].status = "SENT")
    /\ [][ (pc = "cmds" /\ Refusable(Head(cmds)) /\ cmds' # cmds) =>
              /\ attempted' = attempted
              /\ acks_sent' = acks_sent
              /\ commands' = commands
              /\ rejected' = rejected \cup {Head(cmds).id}
              /\ cmds' = Tail(cmds)
              /\ pc' = IF Tail(cmds) = <<>> THEN "top" ELSE "cmds"
         ]_vars

\* C8 witness: in one poll result of two commands the agent refused the first
\* and ran the second.
C8_Witness ==
    \E k \in DOMAIN poll_log :
        /\ Len(poll_log[k].result) = 2
        /\ poll_log[k].result[1].id \in rejected
        /\ poll_log[k].result[2].id \in AttemptedIds

\* C9: no poll result contains a command whose expires_at is not later than
\* the time of the poll.
C9_NoExpiredDelivered ==
    \A k \in DOMAIN poll_log : \A id \in ResultIds(poll_log[k]) :
        commands[id].expires_at > poll_log[k].at

\* C9 witness: a poll for a device was handled when a PENDING command of
\* that device had expired, and did not return it.
C9_Witness ==
    /\ ~odd_ack
    /\ \E k \in DOMAIN poll_log : \E id \in DOMAIN commands :
          /\ commands[id].device_id = poll_log[k].agent_id
          /\ commands[id].status = "PENDING"
          /\ commands[id].expires_at <= poll_log[k].at
          /\ id \notin ResultIds(poll_log[k])

\* C10: while every ack carried EXECUTED or FAILED (or no status), each
\* command id is in the result of at most one poll; and a poll for X returns
\* every unexpired PENDING command of X and leaves it SENT.
C10_DeliveredOnce ==
    /\ [](~odd_ack =>
            \A id \in DOMAIN commands :
                Cardinality({k \in DOMAIN poll_log : id \in ResultIds(poll_log[k])}) <= 1)
    /\ [][ Len(poll_log') = Len(poll_log) + 1 =>
              LET rec == poll_log'[Len(poll_log')]
              IN  \A id \in DOMAIN commands :
                     ( /\ commands[id].device_id = rec.agent_id
                       /\ commands[id].status = "PENDING"
                       /\ commands[id].expires_at > now )
                     => (id \in ResultIds(rec) /\ commands'[id].status = "SENT")
         ]_vars

\* C10 witness: two polls for the same device at the same time; the first
\* returned an unexpired command, the second did not return it.
C10_Witness ==
    /\ ~odd_ack
    /\ Len(poll_log) = 2
    /\ poll_log[1].agent_id = poll_log[2].agent_id
    /\ poll_log[1].at = poll_log[2].at
    /\ poll_log[1].result # <<>>
    /\ poll_log[2].result = <<>>

----------------------------------------------------------------------------
(* Properties of the command lifecycle store *)

Lifecycle == {"PENDING", "SENT", "EXECUTED", "FAILED"}

\* C11: every command's status is one of PENDING, SENT, EXECUTED, FAILED, and
\* every change of a command's status is PENDING to SENT, SENT to EXECUTED or
\* SENT to FAILED; an EXECUTED or FAILED command never changes status again.
C11_LifecycleTransitions ==
    /\ [](\A id \in DOMAIN commands : commands[id].status \in Lifecycle)
    /\ [][ \A id \in DOMAIN commands :
              commands'[id].status # commands[id].status =>
                  \/ commands[id].status = "PENDING" /\ commands'[id].status = "SENT"
                  \/ commands[id].status = "SENT"
                        /\ commands'[id].status \in {"EXECUTED", "FAILED"}
         ]_vars

----------------------------------------------------------------------------
(* Properties of registration and telemetry ingest *)

\* the device a handler's request is for
DeviceOf(h) == inflight[h].payload.agent_id

\* handler h commits in this step
Commits(h) == inflight[h].st = "open" /\ inflight'[h].st = "done"

\* the weights of the persisted events of device d, in insertion order
RECURSIVE RowWeights(_, _)
RowWeights(rows, d) ==
    IF rows = <<>> THEN <<>>
    ELSE (IF Head(rows).device_id = d THEN <<Head(rows).evt.weight>> ELSE <<>>)
         \o RowWeights(Tail(rows), d)

RECURSIVE SumSeq(_)
SumSeq(ws) == IF ws = <<>> THEN 0 ELSE Head(ws) + SumSeq(Tail(ws))

\* C12: every device's stored risk_score is at most 100, whatever the batch
\* sizes and weights of the telemetry requests; a request whose events all
\* weigh 100, ingested into a device whose score is 95, leaves the score at 100.
C12_RiskCapped ==
    /\ [](\A d \in DOMAIN devices : devices[d].risk_score <= RiskCap)
    /\ [][ \A h \in Handlers :
              ( /\ Commits(h)
                /\ inflight[h].read = 95
                /\ devices[DeviceOf(h)].risk_score = 95
                /\ inflight[h].payload.events # <<>>
                /\ \A i \in DOMAIN inflight[h].payload.events :
                      inflight[h].payload.events[i].weight = 100 )
              => devices'[DeviceOf(h)].risk_score = 100
         ]_vars

\* C12 witness: a device took events of weight 100, -5 and 100 and its score
\* is 100.
C12_Witness ==
    \E d \in DOMAIN devices :
        /\ devices[d].risk_score = RiskCap
        /\ RowWeights(events, d) = <<100, -5, 100>>
        /\ \A h \in Handlers : inflight[h].st # "open"

\* C13: a register request for an agentId that already has a Device changes
\* no device row and creates none, and its response carries that Device's
\* current policy.
C13_RegisterIdempotent ==
    [][ (reg.st = "idle" /\ reg'.st = "done" /\ reg'.agent_id \in DOMAIN devices) =>
            /\ devices' = devices
            /\ reg'.policy = devices[reg'.agent_id].policy
      ]_vars

\* C13 witness: a register request for a device whose policy was updated and
\* whose risk score is not 0 was answered with the updated policy.
C13_Witness ==
    /\ reg.st = "done"
    /\ reg.policy = "custom"
    /\ devices[reg.agent_id].policy = "custom"
    /\ devices[reg.agent_id].risk_score = 100
    /\ devices[reg.agent_id].work_stats = "client"

\* C14: a telemetry request whose agent_id has no Device is answered 404 and
\* changes neither the devices table nor the events table; no persisted event
\* belongs to a device that does not exist.
C14_UnknownDeviceRejected ==
    /\ [](\A k \in DOMAIN events : events[k].device_id \in DOMAIN devices)
    /\ [][ \A h \in Handlers :
              ( /\ inflight[h].st = "idle"
                /\ inflight'[h].st # "idle"
                /\ inflight'[h].payload.agent_id \notin DOMAIN devices )
              => /\ inflight'[h] = Response(inflight'[h].payload.agent_id, 404)
                 /\ devices' = devices
                 /\ events' = events
         ]_vars

\* C14 witness: a request for a device that does not exist was answered 404
\* while another device exists with a risk score and persisted events.
C14_Witness ==
    \E h \in Handlers, d \in DOMAIN devices :
        /\ inflight[h].st = "done"
        /\ inflight[h].code = 404
        /\ DeviceOf(h) \notin DOMAIN devices
        /\ devices[d].risk_score = 50
        /\ RowWeights(events, d) = <<50>>

\* C17: requests for one device handled at the same time lose no update.
\* Once no request for a device is between its read and its commit, and all
\* its persisted events have non-negative weights, the device's risk_score
\* is min(100, sum of the weights of its persisted events).
C17_NoLostUpdate ==
    \A d \in DOMAIN devices :
        ( /\ \A h \in Handlers : ~(inflight[h].st = "open" /\ DeviceOf(h) = d)
          /\ \A i \in DOMAIN RowWeights(events, d) : RowWeights(events, d)[i] >= 0 )
        => devices[d].risk_score = Min(RiskCap, SumSeq(RowWeights(events, d)))

\* C18: a telemetry request handled without another request for the same
\* device in between never lowers the device's risk_score, and the score
\* stays within [0, 100].
C18_RiskMonotone ==
    [][ \A h \in Handlers :
           (Commits(h) /\ inflight[h].read = devices[DeviceOf(h)].risk_score) =>
               /\ devices'[DeviceOf(h)].risk_score >= devices[DeviceOf(h)].risk_score
               /\ devices'[DeviceOf(h)].risk_score \in 0..RiskCap
      ]_vars

----------------------------------------------------------------------------
(* Properties of the buffer read, of logging during a cycle, of the        *)
(* backlog and of the command batch                                        *)

\* the events of the lines that hold a serialized event, in file order
RECURSIVE ValidEvents(_)
ValidEvents(lines) ==
    IF lines = <<>> THEN <<>>
    ELSE (IF Head(lines).kind = "json" THEN <<Head(lines).evt>> ELSE <<>>)
         \o ValidEvents(Tail(lines))

\* C15: the buffer read at the start of a cycle skips a malformed line: it
\* returns every valid event among the first min(MaxLines, m) lines of the
\* file, in file order, whatever the other lines are.
C15_MalformedSkipped ==
    [][ (pc = "top" /\ pc' = "telemetry") =>
            offline' = ValidEvents(SubSeq(offline_file, 1,
                                          Min(MaxLines, Len(offline_file))))
      ]_vars

\* C16: with the agent registered, every event ever logged, also one logged
\* while a cycle is between its queue snapshot and its queue clear, is in the
\* in-memory queue, in the offline buffer, or persisted by the server.
C16_ConcurrentLogKept ==
    agent_id \in DOMAIN devices =>
        \A i \in 1..n_logged : InQueue(i) \/ InFile(i) \/ Persisted(i)

\* the sync loop takes a step
SyncStep ==
    \/ RegisterRequestLost
    \/ RegisterResponseLost
    \/ Register
    \/ CycleStart
    \/ TelemetryRequestLost
    \/ TelemetryResponseLost
    \/ Telemetry
    \/ PollRequestLost
    \/ PollResponseLost
    \/ Poll

(* SpecFileLive: SpecFile with the sync thread running for ever: the loop  *)
(* `while self.running` always takes its next step.                        *)
SpecFileLive == SpecFile /\ WF_vars(SyncStep)

\* the last telemetry or poll call of the sync loop did not raise
CallsSucceed ==
    telemetry_result \notin {"request_lost", "response_lost", "poll_lost"}

\* no event is waiting in the queue or in a line of the buffer file
Drained ==
    /\ event_queue = <<>>
    /\ \A k \in DOMAIN offline_file : offline_file[k].kind # "json"

\* C19: the backlog drains.  If from some point on no telemetry or poll call
\* fails and no event is logged, then eventually no event is left in the
\* in-memory queue or in the offline buffer, whatever the buffer file
\* contained.
C19_BacklogDrains ==
    (<>[]CallsSucceed /\ <>[][~LogEventFile]_vars) => <>Drained

\* C20: the agent's step on a command that passes verification attempts it
\* and sends its ack, with EXECUTED or FAILED as the action and its outcome
\* require, and goes on to the rest of the batch, also when the ack request
\* fails.
C20_VerifiedAcked ==
    [][ (pc = "cmds" /\ _verify_command(Self, Head(cmds)) /\ cmds' # cmds) =>
            /\ \E raised \in BOOLEAN :
                  /\ attempted' = Append(attempted,
                                         <<Head(cmds).id, AckStatus(Head(cmds), raised)>>)
                  /\ acks_sent' = Append(acks_sent,
                                         <<Head(cmds).id, AckStatus(Head(cmds), raised)>>)
            /\ cmds' = Tail(cmds)
      ]_vars

----------------------------------------------------------------------------
(* SpecTruncate: _truncate_offline on its own.  An agent object is         *)
(* constructed on a buffer file of arbitrary lines and the method is       *)
(* called directly with arbitrary arguments; the sync loop is not started. *)
(* A missing file is the file of no lines.                                 *)

TruncFiles == UNION {[1..n -> OldLines] : n \in 0..MaxTruncLines}
TruncArgs  == -1..(MaxTruncLines + 1)

InitTruncate ==
    /\ \E f \in TruncFiles : InitAgent(f) /\ file_before = f
    /\ command_secret = COMMAND_SIGNING_SECRET
    /\ InitServer
    /\ n_logged = 0
    /\ mid_cycle_log = FALSE
    /\ telemetry_result = "none"
    /\ attempted = <<>>
    /\ rejected = {}
    /\ acks_sent = <<>>
    /\ poll_log = <<>>
    /\ odd_ack = FALSE
    /\ signed_for = NoTuple
    /\ inflight = [h \in Handlers |-> Idle]
    /\ reg = NoRegister
    /\ consumed_log = <<>>

TruncateCall ==
    /\ Len(consumed_log) < MaxTruncCalls
    /\ \E consumed \in TruncArgs :
          /\ offline_file' = _truncate_offline(offline_file, consumed)
          /\ consumed_log' = Append(consumed_log, consumed)
    /\ UNCHANGED << pc, command_secret, event_queue, policy, offline, merged, cmds >>
    /\ UNCHANGED serverVars
    /\ UNCHANGED << n_logged, mid_cycle_log, telemetry_result, file_before,
                    attempted, rejected, acks_sent, poll_log, odd_ack, signed_for,
                    inflight, reg >>

NextTruncate == TruncateCall

SpecTruncate == InitTruncate /\ [][NextTruncate]_vars

----------------------------------------------------------------------------
(* Properties of _truncate_offline *)

Max(a, b) == IF a > b THEN a ELSE b

\* the lines removed by a sequence of calls: the positive arguments add up
RECURSIVE TotalConsumed(_)
TotalConsumed(ks) ==
    IF ks = <<>> THEN 0 ELSE Max(0, Head(ks)) + TotalConsumed(Tail(ks))

\* C21: a call _truncate_offline(k) on a buffer of m lines leaves exactly the
\* last max(0, m - k) lines in their order, changes nothing when k <= 0 and
\* leaves no line when k > m; after any calls the buffer is the initial file
\* without its first min(m, sum of the positive arguments) lines.
C21_TruncateKeepsTail ==
    /\ [](LET m == Len(file_before)
              n == Max(0, m - TotalConsumed(consumed_log))
          IN  /\ Len(offline_file) = n
              /\ \A i \in 1..n : offline_file[i] = file_before[m - n + i])
    /\ [][ Len(consumed_log') = Len(consumed_log) + 1 =>
              LET k == consumed_log'[Len(consumed_log')]
                  m == Len(offline_file)
                  n == Max(0, m - k)
              IN  IF k <= 0 THEN offline_file' = offline_file
                  ELSE /\ Len(offline_file') = n
                       /\ \A i \in 1..n : offline_file'[i] = offline_file[m - n + i]
         ]_vars

\* C21 witness: a buffer of three lines, not all alike, was truncated by 2
\* and then by 0, and holds its third line.
C21_Witness ==
    /\ consumed_log = <<2, 0>>
    /\ Len(file_before) = 3
    /\ file_before[3] # file_before[2]
    /\ offline_file = <<file_before[3]>>

----------------------------------------------------------------------------
(* Property of what a cycle discards *)

\* the step removes lines from the buffer file, or drops a queued event
\* without writing it to the buffer file
Discards ==
    \/ Len(offline_file') < Len(offline_file)
    \/ \E k \in DOMAIN event_queue :
          /\ \A j \in DOMAIN event_queue' : event_queue'[j] # event_queue[k]
          /\ \A j \in DOMAIN offline_file' : offline_file'[j] # Dumps(event_queue[k])

\* C22: the agent discards events only after the server accepted them.  A
\* step of the sync loop that removes buffer lines or drops queued events
\* without buffering them is the step of a telemetry request the server
\* accepted, and the events of its payload are persisted; on an error
\* status the queue and the buffer stay as they are.
C22_DiscardOnlyAccepted ==
    [][ Discards =>
            /\ pc = "telemetry"
            /\ telemetry_result' = "ok"
            /\ events' = events \o [i \in 1..Len(merged) |->
                                       SecurityEvent(agent_id, merged[i])]
      ]_vars

====
